---- MODULE Spec2Model ----
(***************************************************************************)
(* A model of @localfirst/relay: the relay Server (introductions and the   *)
(* connection rendezvous) and the Client session that talks to it.         *)
(*                                                                         *)
(* Sockets are numbered in the order the server accepts them; `sockets`    *)
(* keeps the route parameters of each, `readyState` its state on the       *)
(* server side, and `sent` what the server has written to it.              *)
(***************************************************************************)
EXTENDS Integers, Sequences, FiniteSets, TLC

VARIABLES
  sockets,      \* socket id -> [kind, A, B, documentId]: the route it was accepted on
  readyState,   \* socket id -> "OPEN" | "CLOSED": WebSocket.readyState on the server side
  sent,         \* socket id -> the byte strings the server has written to the socket
  peers,        \* Server.peers, in insertion order: <<[peerId, socket], ...>>
  documentIds,  \* Server.documentIds: peerId -> array of document ids
  holding,      \* Server.holding: <<A, B, documentId>> -> [socket, messages]
  listeners,    \* socket id -> the listeners openConnection has put on the socket
  pipedTo,      \* socket id -> the socket it is piped to, 0 for none
  asked,        \* peerId -> documentId -> the peer's last request for it (history)
  handled,      \* the event the server handled last (history)
  received,     \* socket id -> the byte strings the server got on a connection socket (history)
  misbehaving,  \* the peer of the N-way scenario that closes right after its Join
  clientDocumentIds, \* client -> Client.documentIds
  clientPeers,  \* client -> Client.peers: peerId -> documentId -> -1 (no entry), 0 (null) or a socket of conns
  conns,        \* the connection WebSockets the clients have made, in the order made
  upstream,     \* client -> the byte strings on their way to the server on its introduction socket
  callsLeft,    \* how many more calls of join and leave the applications make
  client,       \* the fields of the one Client whose server connection is followed
  links,        \* the introduction WebSockets that Client has made, in the order made
  timers,       \* the delays of its reconnect timers that have not fired
  waiting,      \* its calls of isReady that have not returned
  issued,       \* the Join and Leave messages it has issued, in order (history)
  thrown        \* the errors the Clients' listeners have thrown, in order (history)

introVars == <<peers, documentIds, asked, misbehaving>>

brokerVars == <<holding, listeners, pipedTo, received>>

sessionFields == <<client, links, timers, waiting, issued>>

sessionVars == <<sessionFields, thrown>>

clientVars == <<clientDocumentIds, clientPeers, conns, upstream, callsLeft, sessionVars>>

vars == <<sockets, readyState, sent, peers, documentIds, holding, listeners, pipedTo,
          asked, handled, received, misbehaving,
          clientDocumentIds, clientPeers, conns, upstream, callsLeft,
          client, links, timers, waiting, issued, thrown>>

----------------------------------------------------------------------------
(* Bounds and input sets *)

MaxSockets == 3

NPeers == 3

AllPeerIds == <<"alice", "bob", "charlie", "dave", "eve">>

PeerIds == {"alice", "bob"}

DocumentIds == {"doc-1", "doc-2"}

NoPeer == "(none)"

\* the arrays of document ids a Join or Leave carries
IdLists == {<<"doc-1">>, <<"doc-1", "doc-2">>, <<"doc-2", "doc-2">>}

----------------------------------------------------------------------------
(* Sequences as JavaScript arrays *)

Range(seq) == {seq[i] : i \in 1..Len(seq)}

Includes(seq, x) == \E i \in 1..Len(seq) : seq[i] = x

NoDuplicates(seq) == \A i, j \in 1..Len(seq) : seq[i] = seq[j] => i = j

----------------------------------------------------------------------------
(* msgpack: pack wraps a value into a byte string, unpack takes one layer off;
   bytes that are not a packed value do not decode *)

pack(value) == [bytes |-> value]

Malformed == [garbage |-> "010203"]

IsPacked(data) == "bytes" \in DOMAIN data

unpack(data) == data.bytes

----------------------------------------------------------------------------
(* Server: introductions *)

deduplicateAlwaysConcat(acc, documentId) == Append(acc, documentId)

deduplicate(acc, documentId) ==
  IF Includes(acc, documentId) THEN acc ELSE Append(acc, documentId)

RECURSIVE ReduceDeduplicate(_, _)
ReduceDeduplicate(acc, seq) ==
  IF seq = <<>> THEN acc
  ELSE ReduceDeduplicate(deduplicate(acc, Head(seq)), Tail(seq))

intersection(a, b) == SelectSeq(a, LAMBDA documentId : Includes(b, documentId))

PeersHas(peerId) == \E i \in 1..Len(peers) : peers[i].peerId = peerId

\* this.peers[peerId], 0 for undefined
PeersGet(peerId) ==
  IF PeersHas(peerId)
  THEN (CHOOSE e \in Range(peers) : e.peerId = peerId).socket
  ELSE 0

\* this.peers[peerId] = socket: an existing key keeps its place
PeersSet(peerId, socket) ==
  IF PeersHas(peerId)
  THEN [i \in 1..Len(peers) |->
          IF peers[i].peerId = peerId THEN [peerId |-> peerId, socket |-> socket]
          ELSE peers[i]]
  ELSE Append(peers, [peerId |-> peerId, socket |-> socket])

PeersDelete(peerId) == SelectSeq(peers, LAMBDA e : e.peerId # peerId)

\* this.documentIds[peerId] ?? []
DocsOf(docs, peerId) == IF peerId \in DOMAIN docs THEN docs[peerId] ELSE <<>>

DocsSet(docs, peerId, ids) ==
  [p \in DOMAIN docs \cup {peerId} |-> IF p = peerId THEN ids ELSE docs[p]]

DocsDelete(docs, peerId) == [p \in DOMAIN docs \ {peerId} |-> docs[p]]

\* Server.send: nothing is written unless the socket exists and is OPEN
sendWhen(ready, out, peer, message) ==
  IF peer # 0 /\ ready[peer] = "OPEN"
  THEN [out EXCEPT ![peer] = Append(@, pack(message))]
  ELSE out

send(out, peer, message) == sendWhen(readyState, out, peer, message)

Introduction(B, ids) == [type |-> "Introduction", peerId |-> B, documentIds |-> ids]

sendIntroduction(out, A, B, ids) == send(out, PeersGet(A), Introduction(B, ids))

IsSelfNever(A, B) == FALSE

\* "don't introduce peer to themselves"
IsSelf(A, B) == A = B

IntroducePairOneWay(out, A, B, docs) ==
  LET commonKeys == intersection(DocsOf(docs, A), DocsOf(docs, B)) IN
    IF IsSelf(A, B) THEN out
    ELSE IF Len(commonKeys) > 0
         THEN sendIntroduction(out, A, B, commonKeys)
         ELSE out

\* the body of the loop over this.peers for one B
IntroducePair(out, A, B, docs) ==
  LET commonKeys == intersection(DocsOf(docs, A), DocsOf(docs, B)) IN
    IF IsSelf(A, B) THEN out
    ELSE IF Len(commonKeys) > 0
         THEN sendIntroduction(sendIntroduction(out, A, B, commonKeys), B, A, commonKeys)
         ELSE out

\* for (const B in this.peers), from the i-th key on
RECURSIVE IntroduceAll(_, _, _, _)
IntroduceAll(out, i, A, docs) ==
  IF i > Len(peers) THEN out
  ELSE IntroduceAll(IntroducePair(out, A, peers[i].peerId, docs), i + 1, A, docs)

JoinMerge(currentDocumentIds, ids) == ReduceDeduplicate(<<>>, currentDocumentIds \o ids)

LeaveFilterKeepsAll(currentDocumentIds, ids) == currentDocumentIds

LeaveFilter(currentDocumentIds, ids) ==
  SelectSeq(currentDocumentIds, LAMBDA id : ~Includes(ids, id))

parseErrorDropsPeer(peerId, out) ==
  /\ sent' = out
  /\ peers' = PeersDelete(peerId)
  /\ documentIds' = DocsDelete(documentIds, peerId)

\* tryParse gave an Error: it is emitted as "error" and the handler returns
parseError(peerId, out) ==
  /\ sent' = out
  /\ UNCHANGED <<peers, documentIds>>

defaultCaseAnswers(peerId, out) ==
  /\ sent' = send(out, PeersGet(peerId), [type |-> "Heartbeat"])
  /\ UNCHANGED <<peers, documentIds>>

\* case "❤️" and default of the switch, which the Client's heartbeat and every
\* other type reach: nothing to do
defaultCase(peerId, out) ==
  /\ sent' = out
  /\ UNCHANGED <<peers, documentIds>>

\* the handler of "message" on an introduction socket of peerId; out is what is
\* still unread on the sockets when the handler starts
handleIntroductionRequest(peerId, data, out) ==
  LET A == peerId
      currentDocumentIds == DocsOf(documentIds, A)
  IN
    IF ~IsPacked(data)
    THEN parseError(peerId, out)
    ELSE
      LET message == unpack(data) IN
        CASE message.type = "Join" ->
               LET docs == DocsSet(documentIds, A, JoinMerge(currentDocumentIds, message.documentIds)) IN
                 /\ documentIds' = docs
                 /\ sent' = IntroduceAll(out, 1, A, docs)
                 /\ UNCHANGED peers
          [] message.type = "Leave" ->
               /\ documentIds' = DocsSet(documentIds, A, LeaveFilter(currentDocumentIds, message.documentIds))
               /\ sent' = out
               /\ UNCHANGED peers
          [] OTHER -> defaultCase(peerId, out)

closeIntroductionConnectionKeepsPeer(peerId) ==
  UNCHANGED <<peers, documentIds>>

closeIntroductionConnectionKeepsInterests(peerId) ==
  /\ peers' = PeersDelete(peerId)
  /\ UNCHANGED documentIds

\* the handler of "close" on an introduction socket of peerId
closeIntroductionConnection(peerId) ==
  /\ peers' = PeersDelete(peerId)
  /\ documentIds' = DocsDelete(documentIds, peerId)

openIntroductionConnection(socket, peerId) ==
  /\ peers' = PeersSet(peerId, socket)
  /\ UNCHANGED documentIds

----------------------------------------------------------------------------
(* The server's events on introduction sockets *)

Join(ids) == [type |-> "Join", documentIds |-> ids]

Leave(ids) == [type |-> "Leave", documentIds |-> ids]

Heartbeat == [type |-> "Heartbeat"]

\* a message of a type the server does not know
Unknown == [type |-> "Hello"]

IntroductionSockets == {s \in 1..Len(sockets) : sockets[s].kind = "introduction"}

OpenSocketsOf(peerId) ==
  {s \in IntroductionSockets : sockets[s].A = peerId /\ readyState[s] = "OPEN"}

\* what every socket holds once its client has read everything written to it
Flushed == [s \in 1..Len(sent) |-> <<>>]

\* handled: the type of the event, its socket, the document ids a Join or Leave
\* carried, and whether the peer's interest list held them all already
NoEvent == [type |-> "none", socket |-> 0, documentIds |-> <<>>, again |-> FALSE]

SocketEvent(type, s) == [type |-> type, socket |-> s, documentIds |-> <<>>, again |-> FALSE]

\* this.emit("error", { error: message, data })
ErrorEvent(s, data) ==
  [type |-> "error", socket |-> s, documentIds |-> <<>>, again |-> FALSE, data |-> data]

MessageEvent(s, data) ==
  IF ~IsPacked(data) THEN ErrorEvent(s, data)
  ELSE IF unpack(data).type \notin {"Join", "Leave"} THEN SocketEvent(unpack(data).type, s)
  ELSE [type |-> unpack(data).type, socket |-> s, documentIds |-> unpack(data).documentIds,
        again |-> Range(unpack(data).documentIds) \subseteq Range(DocsOf(documentIds, sockets[s].A))]

\* the route /introduction/:peerId accepts a socket
AcceptIntroduction(peerId, out) ==
  /\ sockets' = Append(sockets, [kind |-> "introduction", A |-> peerId, B |-> NoPeer, documentId |-> ""])
  /\ readyState' = Append(readyState, "OPEN")
  /\ sent' = Append(out, <<>>)
  /\ openIntroductionConnection(Len(sockets) + 1, peerId)
  /\ handled' = SocketEvent("open", Len(sockets) + 1)
  /\ listeners' = Append(listeners, {})
  /\ pipedTo' = Append(pipedTo, 0)
  /\ received' = Append(received, <<>>)
  /\ UNCHANGED <<holding, asked, misbehaving>>

\* the peer's last request for each document id, after this message
AskedAfter(was, data) ==
  IF ~IsPacked(data) \/ unpack(data).type \notin {"Join", "Leave"} THEN was
  ELSE [d \in DOMAIN was |->
          IF ~Includes(unpack(data).documentIds, d) THEN was[d]
          ELSE unpack(data).type]

\* a Join counts for as long as no transport of the peer has closed since
AskedAfterClose(was) ==
  [d \in DOMAIN was |-> IF was[d] = "Join" THEN "none" ELSE was[d]]

\* the peer has asked to join the document id, and neither left it nor lost a transport since
HasJoined(peerId, d) == asked[peerId][d] = "Join"

\* a client's message arrives on an open introduction socket
IntroductionMessage(s, data, out) ==
  /\ s \in IntroductionSockets
  /\ readyState[s] = "OPEN"
  /\ handleIntroductionRequest(sockets[s].A, data, out)
  /\ asked' = [asked EXCEPT ![sockets[s].A] = AskedAfter(@, data)]
  /\ handled' = MessageEvent(s, data)
  /\ UNCHANGED <<sockets, readyState, misbehaving, brokerVars>>

\* an introduction socket closes
IntroductionClose(s, out) ==
  /\ s \in IntroductionSockets
  /\ readyState[s] = "OPEN"
  /\ readyState' = [readyState EXCEPT ![s] = "CLOSED"]
  /\ closeIntroductionConnection(sockets[s].A)
  /\ sent' = out
  /\ asked' = [asked EXCEPT ![sockets[s].A] = AskedAfterClose(@)]
  /\ handled' = SocketEvent("close", s)
  /\ UNCHANGED <<sockets, misbehaving, brokerVars>>

ClientMessages ==
  {pack(Join(ids)) : ids \in IdLists} \cup {pack(Leave(<<d>>)) : d \in DocumentIds}
    \cup {pack(Heartbeat), pack(Unknown), Malformed}

NeverAsked(ids) == [p \in ids |-> [d \in DocumentIds |-> "none"]]

InitServer ==
  /\ sockets = <<>>
  /\ readyState = <<>>
  /\ sent = <<>>
  /\ peers = <<>>
  /\ documentIds = [p \in {} |-> <<>>]
  /\ holding = [k \in {} |-> <<>>]
  /\ listeners = <<>>
  /\ pipedTo = <<>>
  /\ received = <<>>

\* no Client's server connection is followed
InitNoSession ==
  /\ client = [peerId |-> NoPeer]
  /\ links = <<>>
  /\ timers = <<>>
  /\ waiting = <<>>
  /\ issued = <<>>
  /\ thrown = <<>>

\* no Client is running: the sockets are driven directly, as the server tests do
InitNoClients ==
  /\ InitNoSession
  /\ clientDocumentIds = [c \in {} |-> {}]
  /\ clientPeers = [c \in {} |-> {}]
  /\ conns = <<>>
  /\ upstream = [c \in {} |-> <<>>]
  /\ callsLeft = 0

InitIntro ==
  /\ InitServer
  /\ InitNoClients
  /\ asked = NeverAsked(PeerIds)
  /\ handled = NoEvent
  /\ misbehaving = NoPeer

\* The introduction service under any traffic; every client reads what it is
\* sent before the server handles its next event.
NextIntro ==
  \/ \E p \in PeerIds :
       /\ Len(sockets) < MaxSockets
       /\ AcceptIntroduction(p, Flushed)
       /\ UNCHANGED clientVars
  \/ \E s \in 1..Len(sockets), data \in ClientMessages :
       IntroductionMessage(s, data, Flushed) /\ UNCHANGED clientVars
  \/ \E s \in 1..Len(sockets) :
       IntroductionClose(s, Flushed) /\ UNCHANGED clientVars

SpecIntro == InitIntro /\ [][NextIntro]_vars

----------------------------------------------------------------------------
(* Claims about the introduction service *)

\* the Introductions in a sequence of written byte strings
Introductions(written) == [i \in 1..Len(written) |-> unpack(written[i])]

\* written holds an Introduction naming B whose topics are exactly the set common
IntroducedTo(written, B, common) ==
  \E m \in Range(Introductions(written)) :
    m.type = "Introduction" /\ m.peerId = B /\ Range(m.documentIds) = common

Interests(docs, peerId) == Range(DocsOf(docs, peerId))

\* what the server wrote to socket s, decoded
WrittenTo(s) == Range(Introductions(sent[s]))

Registered(peerId) == PeersGet(peerId) # 0 /\ readyState[PeersGet(peerId)] = "OPEN"

\* the peer whose socket the last event was on
Handler == sockets[handled.socket].A

\* C1: symmetric introduction. When a Join for topic t has arrived from A, and
\* B is another peer with an open introduction transport that has joined t,
\* the server has sent A an Introduction naming B and B one naming A, each
\* listing exactly the intersection of the two registered interest sets.
C1_SymmetricIntroduction ==
  handled.type = "Join" =>
    \A B \in DOMAIN asked \ {Handler}, t \in Range(handled.documentIds) :
      (OpenSocketsOf(B) # {} /\ HasJoined(B, t)) =>
        LET common == Interests(documentIds, Handler) \cap Interests(documentIds, B) IN
          /\ \E sa \in OpenSocketsOf(Handler) : IntroducedTo(sent[sa], B, common)
          /\ \E sb \in OpenSocketsOf(B) : IntroducedTo(sent[sb], Handler, common)

\* C6: no self-introduction. No socket is ever sent an Introduction naming its
\* own peer id, also when its peer joins a topic again; and when a Join leaves
\* two different registered peers with the same interest set, each is sent an
\* Introduction naming the other.
C6_NoSelfIntroduction ==
  /\ \A s \in 1..Len(sent) : \A m \in WrittenTo(s) : m.peerId # sockets[s].A
  /\ handled.type = "Join" =>
       \A B \in DOMAIN asked \ {Handler} :
         ( /\ Registered(Handler) /\ Registered(B)
           /\ Interests(documentIds, Handler) = Interests(documentIds, B) ) =>
             /\ IntroducedTo(sent[PeersGet(Handler)], B, Interests(documentIds, B))
             /\ IntroducedTo(sent[PeersGet(B)], Handler, Interests(documentIds, B))

\* C6 witness: alice has joined doc-1, which she held already, and was sent an
\* Introduction naming bob, whose interest set is the same as hers
C6_Witness ==
  /\ handled.type = "Join" /\ handled.again /\ Handler = "alice"
  /\ Registered("alice") /\ Registered("bob")
  /\ DocsOf(documentIds, "alice") = DocsOf(documentIds, "bob")
  /\ IntroducedTo(sent[PeersGet("alice")], "bob", {"doc-1"})

\* C7: leave removes matching. Every Introduction the server sends lists at
\* least one document id, and none that its recipient or the peer it names has
\* left and not joined again.
C7_LeaveRemovesMatching ==
  \A s \in 1..Len(sent) : \A m \in WrittenTo(s) :
    /\ m.documentIds # <<>>
    /\ \A d \in Range(m.documentIds) :
         asked[sockets[s].A][d] # "Leave" /\ asked[m.peerId][d] # "Leave"

\* C7 witness: alice has left doc-1; bob, who holds doc-2, has now joined
\* doc-1, and the Introduction sent to alice about bob lists doc-2 only
C7_Witness ==
  /\ asked["alice"]["doc-1"] = "Leave"
  /\ handled.type = "Join" /\ Handler = "bob" /\ handled.documentIds = <<"doc-1">>
  /\ Registered("alice")
  /\ IntroducedTo(sent[PeersGet("alice")], "bob", {"doc-2"})

\* C8: idempotent join. No interest list holds a document id twice, and a Join
\* processed a second time with the same list would leave the interest list as
\* the first left it.
C8_IdempotentJoin ==
  /\ \A p \in DOMAIN documentIds : NoDuplicates(documentIds[p])
  /\ handled.type = "Join" =>
       JoinMerge(DocsOf(documentIds, Handler), handled.documentIds) = DocsOf(documentIds, Handler)

\* C8 witness: alice has joined doc-1 and doc-2 when she held both, and her
\* interest list holds each once
C8_Witness ==
  /\ handled.type = "Join" /\ handled.again /\ Handler = "alice"
  /\ handled.documentIds = <<"doc-1", "doc-2">>
  /\ Len(DocsOf(documentIds, "alice")) = 2

\* C13: malformed control message. When a payload that does not decode arrives
\* on an introduction socket, the server emits "error" with the raw payload,
\* writes to no socket and changes neither its sockets, nor the peers and
\* their interests, nor the pending connections; and when the next message is
\* a Join on the same socket, which is the one registered for its peer, the
\* peer is sent an Introduction for every other registered peer that shares
\* an interest with it.
C13_MalformedMessage ==
  [][/\ handled'.type = "error" =>
          /\ handled'.data = Malformed
          /\ sent' = Flushed
          /\ UNCHANGED <<sockets, readyState, peers, documentIds, holding>>
     /\ ( /\ handled.type = "error" /\ handled'.type = "Join"
          /\ handled'.socket = handled.socket
          /\ PeersGet(Handler) = handled.socket ) =>
            \A B \in DOMAIN asked \ {Handler} :
              LET common == Interests(documentIds', Handler) \cap Interests(documentIds', B) IN
                (Registered(B) /\ common # {}) =>
                  IntroducedTo(sent'[handled.socket], B, common)
    ]_vars

\* C13 witness: bob, whose socket is registered and open, has sent a payload
\* that does not decode while alice is registered with an interest
C13_Witness ==
  /\ handled.type = "error" /\ Handler = "bob"
  /\ PeersGet("bob") = handled.socket /\ Registered("bob")
  /\ Registered("alice") /\ Interests(documentIds, "alice") = {"doc-1"}

----------------------------------------------------------------------------
(* The N-way scenario of the server tests: NPeers peers open one introduction
   socket each and send one Join for the same document id; the misbehaving
   peer, if there is one, closes its socket right after sending its Join.
   What the server writes stays on the sockets, so that it can be counted. *)

NWayPeers == {AllPeerIds[i] : i \in 1..NPeers}

InitNWay ==
  /\ InitServer
  /\ InitNoClients
  /\ asked = NeverAsked(NWayPeers)
  /\ handled = NoEvent
  /\ misbehaving \in {NoPeer} \cup NWayPeers

NextNWay ==
  \/ \E p \in NWayPeers :
       /\ \A s \in 1..Len(sockets) : sockets[s].A # p
       /\ AcceptIntroduction(p, sent)
       /\ UNCHANGED clientVars
  \/ \E s \in 1..Len(sockets) :
       /\ asked[sockets[s].A]["doc-1"] = "none"
       /\ IntroductionMessage(s, pack(Join(<<"doc-1">>)), sent)
       /\ UNCHANGED clientVars
  \/ \E s \in 1..Len(sockets) :
       /\ sockets[s].A = misbehaving
       /\ asked[misbehaving]["doc-1"] = "Join"
       /\ IntroductionClose(s, sent)
       /\ UNCHANGED clientVars

SpecNWay == InitNWay /\ [][NextNWay]_vars

\* the Introductions naming B among the byte strings written
Naming(written, B) == {i \in 1..Len(written) : unpack(written[i]).peerId = B}

\* how many Introductions naming B the sockets of A were sent
Delivered(A, B) ==
  LET S == {s \in 1..Len(sockets) : sockets[s].A = A}
      count[T \in SUBSET S] ==
        IF T = {} THEN 0
        ELSE LET s == CHOOSE x \in T : TRUE IN
               Cardinality(Naming(sent[s], B)) + count[T \ {s}]
  IN count[S]

\* how many Introductions the peers of the set To were sent, naming whomever
DeliveredTo(To) ==
  LET pairs == To \X NWayPeers
      count[T \in SUBSET pairs] ==
        IF T = {} THEN 0
        ELSE LET q == CHOOSE x \in T : TRUE IN Delivered(q[1], q[2]) + count[T \ {q}]
  IN count[pairs]

Remaining == NWayPeers \ {misbehaving}

AllJoined == \A p \in Remaining : asked[p]["doc-1"] = "Join"

Departed ==
  \E s \in 1..Len(sockets) : sockets[s].A = misbehaving /\ readyState[s] = "CLOSED"

\* C9: N-way introduction count. When every one of the N peers has sent its one
\* Join and none disconnects, the Introductions delivered are exactly N*(N-1),
\* one for each ordered pair of distinct peers.
C9_NWayCount ==
  (misbehaving = NoPeer /\ AllJoined) =>
    /\ DeliveredTo(NWayPeers) = NPeers * (NPeers - 1)
    /\ \A A, B \in NWayPeers : Delivered(A, B) = IF A = B THEN 0 ELSE 1

\* C9 witness: nobody misbehaves and all the peers have joined
C9_Witness == misbehaving = NoPeer /\ AllJoined /\ DeliveredTo(NWayPeers) > 0

\* C10 as claimed: with one peer closing right after its Join, the
\* Introductions delivered are (N-1)*(N-2) in total in every interleaving.
C10_ExactlyAmongRemaining ==
  (misbehaving # NoPeer /\ Departed /\ AllJoined) =>
    DeliveredTo(Remaining) = (NPeers - 1) * (NPeers - 2)

\* C10 as amended: each ordered pair of remaining peers gets exactly one
\* Introduction, (N-1)*(N-2) among them; a remaining peer is sent at most one
\* Introduction naming the departing peer, and none once the server has
\* handled the close, so the remaining peers are sent between (N-1)*(N-2) and
\* (N-1)*(N-1) Introductions.
C10_RemainingPeersServed ==
  [][/\ \A A, B \in NWayPeers : Delivered(A, B)' <= 1
     /\ (Departed /\ AllJoined)' =>
          /\ \A A, B \in Remaining : Delivered(A, B)' = IF A = B THEN 0 ELSE 1
          /\ DeliveredTo(Remaining)' >= (NPeers - 1) * (NPeers - 2)
          /\ DeliveredTo(Remaining)' <= (NPeers - 1) * (NPeers - 1)
     /\ Departed => \A A \in Remaining : Delivered(A, misbehaving)' = Delivered(A, misbehaving)
    ]_vars

\* C10 witness: the misbehaving peer is gone, the others have all joined, and
\* some of them were sent an Introduction naming the peer that left
C10_Witness ==
  /\ misbehaving # NoPeer /\ Departed /\ AllJoined
  /\ DeliveredTo(Remaining) > (NPeers - 1) * (NPeers - 2)

----------------------------------------------------------------------------
(* Server: peer connections *)

MaxConnections == 3

MaxFrames == 3

\* `${A}:${B}:${documentId}`
Key(A, B, documentId) == A \o ":" \o B \o ":" \o documentId

KeyOf(s) == Key(sockets[s].A, sockets[s].B, sockets[s].documentId)

HoldingHas(h, k) == k \in DOMAIN h

HoldingSet(h, k, entry) == [x \in DOMAIN h \cup {k} |-> IF x = k THEN entry ELSE h[x]]

HoldingDeleteKeeps(h, k) == h

\* delete this.holding[k]
HoldingDelete(h, k) == [x \in DOMAIN h \ {k} |-> h[x]]

\* the closures one call of openConnection makes, named by the socket of the call
HoldMessageOf(call) == [on |-> "message", fn |-> "holdMessage", call |-> call]

DeleteHoldingOf(call) == [on |-> "close", fn |-> "deleteHolding", call |-> call]

\* holdMessage: this.holding[AseeksB]?.messages.push(message)
holdMessage(h, AseeksB, message) ==
  IF HoldingHas(h, AseeksB)
  THEN [h EXCEPT ![AseeksB].messages = Append(@, message)]
  ELSE h

\* socket.removeListener: takes off the socket the very closure it is given
removeListener(on, socket, listener) == [on EXCEPT ![socket] = @ \ {listener}]

\* messages.forEach(message => this.send(socket, message))
RECURSIVE sendStored(_, _, _, _)
sendStored(ready, out, socket, messages) ==
  IF messages = <<>> THEN out
  ELSE sendStored(ready, sendWhen(ready, out, socket, Head(messages)), socket, Tail(messages))

\* pipeSockets(socketA, socketB): each is the other's pipe from now on
pipeSockets(pipes, socketA, socketB) ==
  [pipes EXCEPT ![socketA] = socketB, ![socketB] = socketA]

PipeForwardsNothing(out, s, data) == out

\* the pipe's listener of "message" on socket s: the bytes go to the other side as they are
PipeForward(out, s, data) ==
  IF pipedTo[s] # 0 /\ readyState[pipedTo[s]] = "OPEN"
  THEN [out EXCEPT ![pipedTo[s]] = Append(@, data)]
  ELSE out

PipeCloseLeavesOpen(ready, s) == ready

\* the pipe's listener of "close" on socket s: the other side is closed too
PipeClose(ready, s) ==
  IF pipedTo[s] # 0 /\ ready[pipedTo[s]] = "OPEN"
  THEN [ready EXCEPT ![pipedTo[s]] = "CLOSING"]
  ELSE ready

closeListenerKeepsEntry(h, s) == h

\* the listener of "close" the hold branch put on socket s
closeListener(h, s) ==
  IF \E l \in listeners[s] : l.fn = "deleteHolding"
  THEN HoldingDelete(h, KeyOf(s))
  ELSE h

\* openConnection for a socket just accepted; ready, on and pipes are the
\* sockets' states, listeners and pipes with the new socket among them
openConnection(socket, A, B, documentId, ready, on, pipes, out) ==
  LET socketA == socket
      AseeksB == Key(A, B, documentId)
      BseeksA == Key(B, A, documentId)
  IN
    IF HoldingHas(holding, BseeksA)
    THEN LET socketB == holding[BseeksA].socket
             messages == holding[BseeksA].messages
         IN /\ sent' = sendStored(ready, out, socket, messages)
            /\ pipedTo' = pipeSockets(pipes, socketA, socketB)
            /\ listeners' = removeListener(on, socketA, HoldMessageOf(socket))
            /\ holding' = HoldingDelete(holding, BseeksA)
    ELSE /\ holding' = HoldingSet(holding, AseeksB, [socket |-> socketA, messages |-> <<>>])
         /\ listeners' = [on EXCEPT ![socketA] = {HoldMessageOf(socket), DeleteHoldingOf(socket)}]
         /\ sent' = out
         /\ pipedTo' = pipes

ConnectionSockets == {s \in 1..Len(sockets) : sockets[s].kind = "connection"}

\* the route /connection/:A/:B/:documentId accepts a socket
AcceptConnection(A, B, documentId, out) ==
  LET socket == Len(sockets) + 1 IN
    /\ sockets' = Append(sockets, [kind |-> "connection", A |-> A, B |-> B, documentId |-> documentId])
    /\ readyState' = Append(readyState, "OPEN")
    /\ openConnection(socket, A, B, documentId, Append(readyState, "OPEN"),
                      Append(listeners, {}), Append(pipedTo, 0), Append(out, <<>>))
    /\ received' = Append(received, <<>>)
    /\ handled' = SocketEvent("connect", socket)
    /\ UNCHANGED introVars

\* bytes arrive on a connection socket: every "message" listener on it runs
ConnectionMessage(s, data, out) ==
  /\ s \in ConnectionSockets
  /\ readyState[s] \in {"OPEN", "CLOSING"}
  /\ holding' = IF \E l \in listeners[s] : l.fn = "holdMessage"
                THEN holdMessage(holding, KeyOf(s), data)
                ELSE holding
  /\ sent' = PipeForward(out, s, data)
  /\ received' = [received EXCEPT ![s] = Append(@, data)]
  /\ handled' = SocketEvent("frame", s)
  /\ UNCHANGED <<sockets, readyState, listeners, pipedTo, introVars>>

\* a connection socket closes: every "close" listener on it runs
ConnectionClose(s, out) ==
  /\ s \in ConnectionSockets
  /\ readyState[s] \in {"OPEN", "CLOSING"}
  /\ readyState' = PipeClose([readyState EXCEPT ![s] = "CLOSED"], s)
  /\ holding' = closeListener(holding, s)
  /\ sent' = out
  /\ handled' = SocketEvent("close", s)
  /\ UNCHANGED <<sockets, listeners, pipedTo, received, introVars>>

AllTexts == <<"DUDE!!", "hello", "sup", "bye">>

\* what the peers send each other: the n-th payload a client sends on socket s
Payload(s, n) == [text |-> AllTexts[n], from |-> s]

Frame(s, n) == pack(Payload(s, n))

\* how many frames the server has got on the connection sockets
RECURSIVE FramesGot(_)
FramesGot(s) == IF s = 0 THEN 0 ELSE Len(received[s]) + FramesGot(s - 1)

InitBroker ==
  /\ InitServer
  /\ InitNoClients
  /\ asked = NeverAsked(PeerIds)
  /\ handled = NoEvent
  /\ misbehaving = NoPeer

\* The rendezvous under any traffic; what the server writes stays on the sockets.
NextBroker ==
  \/ \E A \in PeerIds : \E B \in PeerIds \ {A} :
       /\ Len(sockets) < MaxConnections
       /\ AcceptConnection(A, B, "doc-1", sent)
       /\ UNCHANGED clientVars
  \/ \E s \in 1..Len(sockets) :
       /\ FramesGot(Len(received)) < MaxFrames
       /\ ConnectionMessage(s, Frame(s, Len(received[s]) + 1), sent)
       /\ UNCHANGED clientVars
  \/ \E s \in 1..Len(sockets) :
       ConnectionClose(s, sent) /\ UNCHANGED clientVars

SpecBroker == InitBroker /\ [][NextBroker]_vars

----------------------------------------------------------------------------
(* Claims about the rendezvous *)

\* the connection sockets that found their reciprocal request waiting
LaterArrivals == {x \in ConnectionSockets : pipedTo[x] # 0 /\ pipedTo[x] < x}

\* socket s is the one its pending entry holds
Pending(h, s) == HoldingHas(h, KeyOf(s)) /\ h[KeyOf(s)].socket = s

\* C2: rendezvous ordering. The later-arriving side is sent what the
\* earlier-arriving side has sent, message for message in the order sent: what
\* was sent before the pairing first, then what is sent after it.
C2_RendezvousOrdering ==
  \A x \in LaterArrivals : sent[x] = received[pipedTo[x]]

\* C3: buffered payload fidelity. When a request has just been paired, the
\* payloads written to its socket are those the earlier-arriving side sent
\* while it waited: the first one decodes to "DUDE!!".
C3_BufferedPayloadFidelity ==
  (handled.type = "connect" /\ handled.socket \in LaterArrivals) =>
    \A i \in 1..Len(sent[handled.socket]) :
      unpack(sent[handled.socket][i]) = Payload(pipedTo[handled.socket], i)

\* C4: cleanup on abandonment. When the socket of a pending request closes,
\* its entry is gone with the messages it held, nothing is written to any
\* socket and no other socket is closed; no entry ever holds a socket that is
\* not open; and a request that finds no reciprocal entry becomes pending
\* with nothing written to it, while one that is paired is paired with a
\* socket that is open and pending.
C4_CleanupOnAbandonment ==
  [][/\ \A s \in ConnectionSockets :
          (Pending(holding, s) /\ readyState[s] = "OPEN" /\ readyState'[s] = "CLOSED") =>
            /\ ~HoldingHas(holding', KeyOf(s))
            /\ sent' = sent
            /\ \A o \in 1..Len(sockets) \ {s} : readyState'[o] = readyState[o]
     /\ \A k \in DOMAIN holding' : readyState'[holding'[k].socket] = "OPEN"
     /\ Len(sockets') > Len(sockets) =>
          LET x == Len(sockets') IN
            IF pipedTo'[x] = 0
            THEN /\ holding'[Key(sockets'[x].A, sockets'[x].B, sockets'[x].documentId)]
                      = [socket |-> x, messages |-> <<>>]
                 /\ sent'[x] = <<>>
            ELSE /\ readyState[pipedTo'[x]] = "OPEN"
                 /\ Pending(holding, pipedTo'[x])
    ]_vars

\* C4 witness: alice's request was pending and held a message when its socket
\* closed; bob's reciprocal request, which came later, is pending and was sent nothing
C4_Witness ==
  /\ Len(sockets) = 2
  /\ sockets[1].A = "alice" /\ sockets[1].B = "bob"
  /\ received[1] # <<>> /\ readyState[1] = "CLOSED" /\ pipedTo[1] = 0
  /\ sockets[2].A = "bob" /\ sockets[2].B = "alice"
  /\ Pending(holding, 2) /\ holding[KeyOf(2)].messages = <<>> /\ sent[2] = <<>>

\* both ends of the pipe of socket s are open
PipeOpen(s) ==
  pipedTo[s] # 0 /\ readyState[s] = "OPEN" /\ readyState[pipedTo[s]] = "OPEN"

\* C11: pipe forwarding. While both sockets of a pipe are open, a message that
\* arrives on one is written to the other as it is, after those written
\* before, and to no other socket; the earlier-arriving side has been sent
\* exactly what the later-arriving side has sent, in the order sent.
C11_PipeForwarding ==
  [][/\ \A s \in ConnectionSockets :
          (PipeOpen(s) /\ received'[s] # received[s]) =>
            /\ sent'[pipedTo[s]] = Append(sent[pipedTo[s]], received'[s][Len(received'[s])])
            /\ \A o \in 1..Len(sockets) \ {pipedTo[s]} : sent'[o] = sent[o]
     /\ \A x \in LaterArrivals' :
          PipeOpen(x)' => sent'[pipedTo'[x]] = received'[x]
    ]_vars

\* C11 witness: alice's socket and bob's are piped and open, and each has been
\* sent a message the other sent after the pairing
C11_Witness ==
  /\ Len(sockets) = 2 /\ PipeOpen(1)
  /\ sent[1] = <<Frame(2, 1)>>
  /\ sent[2] = <<Frame(1, 1), Frame(1, 2)>>

\* C12: pipe teardown. When a socket of a pipe closes the other is open no
\* longer, and nothing is written to a socket once it has closed, whatever
\* the other side sends afterwards.
C12_PipeTeardown ==
  [][\A s \in ConnectionSockets :
       /\ (pipedTo[s] # 0 /\ readyState'[s] = "CLOSED") => readyState'[pipedTo[s]] # "OPEN"
       /\ readyState[s] = "CLOSED" => sent'[s] = sent[s]
    ]_vars

\* C12 witness: alice's socket, piped to bob's, has closed; bob's is closing,
\* and the message that has just arrived on it was not written to alice's
C12_Witness ==
  /\ Len(sockets) = 2 /\ pipedTo[1] = 2
  /\ readyState[1] = "CLOSED" /\ readyState[2] = "CLOSING"
  /\ handled = SocketEvent("frame", 2)
  /\ received[2] = <<Frame(2, 1)>> /\ sent[1] = <<>>

----------------------------------------------------------------------------
(* Client: two clients, each with its introduction socket to the server, join
   and leave one document id. No transport fails: a socket closes only
   because a client or the server's pipe closes it. *)

MaxCalls == 4

Clients == {"alice", "bob"}

Topics == {"doc-1"}

\* the introduction socket the server accepted from the client, 0 before that
ServerConnection(c) ==
  IF \E s \in IntroductionSockets : sockets[s].A = c
  THEN CHOOSE s \in IntroductionSockets : sockets[s].A = c
  ELSE 0

\* Client.has(peerId, documentId)
has(c, peerId, documentId) == clientPeers[c][peerId][documentId] # -1

\* Client.send: once the server connection is ready the packed message is
\* written to it
clientSend(c, message) == [upstream EXCEPT ![c] = Append(@, pack(message))]

\* socket.close() on the sockets of the set closing: the open ones are closing
CloseAll(cs, closing) ==
  [j \in 1..Len(cs) |->
     IF j \in closing /\ cs[j].readyState \notin {"CLOSED", "CLOSING"}
     THEN [cs[j] EXCEPT !.readyState = "CLOSING"]
     ELSE cs[j]]

closeSocketKeepsEntry(c, cs, peerId, documentId) ==
  /\ conns' = CloseAll(cs, {clientPeers[c][peerId][documentId]})
  /\ clientPeers' = clientPeers

\* Client.closeSocket: the socket the map holds for the key is closed unless it
\* is null, closed or closing, and the entry is deleted
closeSocket(c, cs, peerId, documentId) ==
  /\ conns' = CloseAll(cs, {clientPeers[c][peerId][documentId]})
  /\ clientPeers' = [clientPeers EXCEPT ![c][peerId][documentId] = -1]

\* Client.join
ClientJoin(c, documentId) ==
  /\ callsLeft > 0
  /\ callsLeft' = callsLeft - 1
  /\ clientDocumentIds' = [clientDocumentIds EXCEPT ![c] = @ \cup {documentId}]
  /\ upstream' = clientSend(c, Join(<<documentId>>))
  /\ UNCHANGED <<clientPeers, conns>>

\* Client.leave: closeSocket for every peer of the map, then the Leave
ClientLeave(c, documentId) ==
  /\ callsLeft > 0
  /\ callsLeft' = callsLeft - 1
  /\ clientDocumentIds' = [clientDocumentIds EXCEPT ![c] = @ \ {documentId}]
  /\ conns' = CloseAll(conns, {clientPeers[c][peerId][documentId] : peerId \in DOMAIN clientPeers[c]})
  /\ clientPeers' = [clientPeers EXCEPT ![c] =
                       [peerId \in DOMAIN @ |-> [@[peerId] EXCEPT ![documentId] = -1]]]
  /\ upstream' = clientSend(c, Leave(<<documentId>>))

\* peer.has(documentId) in Client.connectToPeer: null counts as present
peerHasNever(cp, peerId, documentId) == FALSE

peerHas(cp, peerId, documentId) == cp[peerId][documentId] # -1

\* new WebSocket(url) in Client.connectToPeer; connects and disconnects count
\* the peer-connect and peer-disconnect events emitted for the socket
NewPeerSocket(c, peerId, documentId) ==
  [owner |-> c, peerId |-> peerId, documentId |-> documentId,
   readyState |-> "CONNECTING", server |-> 0, connects |-> 0, disconnects |-> 0]

\* Client.disconnectPeer: closeSocket for every document id of the peer's map
ClientDisconnectPeerKeepsMap(c, peerId) ==
  /\ callsLeft > 0
  /\ callsLeft' = callsLeft - 1
  /\ conns' = CloseAll(conns, {clientPeers[c][peerId][d] : d \in DOMAIN clientPeers[c][peerId]})
  /\ UNCHANGED <<clientDocumentIds, clientPeers, upstream>>

ClientDisconnectPeer(c, peerId) ==
  /\ callsLeft > 0
  /\ callsLeft' = callsLeft - 1
  /\ conns' = CloseAll(conns, {clientPeers[c][peerId][d] : d \in DOMAIN clientPeers[c][peerId]})
  /\ clientPeers' = [clientPeers EXCEPT ![c][peerId] = [d \in DOMAIN @ |-> -1]]
  /\ UNCHANGED <<clientDocumentIds, upstream>>

\* Client.connectToPeer for each document id of an Introduction, in turn: a
\* key the map has is left alone, another gets null and a new WebSocket
RECURSIVE connectToPeers(_, _, _, _, _)
connectToPeers(c, peerId, ids, cp, cs) ==
  IF ids = <<>> THEN [peers |-> cp, conns |-> cs]
  ELSE IF peerHas(cp, peerId, Head(ids))
       THEN connectToPeers(c, peerId, Tail(ids), cp, cs)
       ELSE connectToPeers(c, peerId, Tail(ids),
              [cp EXCEPT ![peerId][Head(ids)] = 0],
              Append(cs, NewPeerSocket(c, peerId, Head(ids))))

invalidMessageTypeIgnored(c, message) ==
  UNCHANGED <<thrown, clientPeers, conns>>

\* throw new Error(`Invalid message type '${message.type}'`)
invalidMessageType(c, message) ==
  /\ thrown' = Append(thrown, [client |-> c, error |-> "Invalid message type", type |-> message.type])
  /\ UNCHANGED <<clientPeers, conns>>

\* Client.onServerMessage, the listener of the client's socket that the server
\* knows as s: the client reads the next message on it
OnServerMessage(c, s) ==
    /\ s # 0
    /\ sent[s] # <<>>
    /\ LET message == unpack(Head(sent[s])) IN
         IF message.type # "Introduction"
         THEN invalidMessageType(c, message)
         ELSE LET dialed == connectToPeers(c, message.peerId, message.documentIds, clientPeers[c], conns)
              IN /\ clientPeers' = [clientPeers EXCEPT ![c] = dialed.peers]
                 /\ conns' = dialed.conns
                 /\ thrown' = thrown
    /\ sent' = [sent EXCEPT ![s] = Tail(@)]
    /\ UNCHANGED <<clientDocumentIds, upstream, callsLeft>>

\* the client reads the next message on its server connection
ClientOnServerMessage(c) == OnServerMessage(c, ServerConnection(c))

\* the listener of "open" of connectToPeer: the server has accepted the socket
ClientOnOpen(i) ==
  /\ conns[i].readyState = "CONNECTING"
  /\ conns[i].server # 0
  /\ conns' = [conns EXCEPT ![i].readyState = "OPEN", ![i].connects = @ + 1]
  /\ clientPeers' = [clientPeers EXCEPT ![conns[i].owner][conns[i].peerId][conns[i].documentId] = i]
  /\ UNCHANGED <<clientDocumentIds, upstream, callsLeft>>

\* the listener of "close" of connectToPeer: the socket, which the client or
\* the server has closed, is closed
ClientOnClose(i) ==
  /\ conns[i].readyState \in {"OPEN", "CLOSING"}
  /\ readyState[conns[i].server] \in {"CLOSING", "CLOSED"}
  /\ closeSocket(conns[i].owner,
                 [conns EXCEPT ![i].readyState = "CLOSED", ![i].disconnects = @ + 1],
                 conns[i].peerId, conns[i].documentId)
  /\ UNCHANGED <<clientDocumentIds, upstream, callsLeft>>

serverVars == <<sockets, readyState, sent, peers, documentIds, holding, listeners, pipedTo,
                asked, handled, received, misbehaving>>

\* the server accepts the client's introduction socket
ServerAcceptsIntroduction(c) ==
  /\ ServerConnection(c) = 0
  /\ AcceptIntroduction(c, sent)
  /\ UNCHANGED clientVars

\* the server gets the next message the client has sent it
ServerGetsRequest(c) ==
  /\ ServerConnection(c) # 0
  /\ upstream[c] # <<>>
  /\ IntroductionMessage(ServerConnection(c), Head(upstream[c]), sent)
  /\ upstream' = [upstream EXCEPT ![c] = Tail(@)]
  /\ UNCHANGED <<clientDocumentIds, clientPeers, conns, callsLeft, sessionVars>>

\* the server accepts a connection socket a client has made
ServerAcceptsConnection(i) ==
  /\ conns[i].server = 0
  /\ AcceptConnection(conns[i].owner, conns[i].peerId, conns[i].documentId, sent)
  /\ conns' = [conns EXCEPT ![i].server = Len(sockets) + 1]
  /\ UNCHANGED <<clientDocumentIds, clientPeers, upstream, callsLeft, sessionVars>>

\* the server sees the close of a connection socket that the client, or its
\* own pipe, has closed
ServerGetsClose(i) ==
  LET s == conns[i].server IN
    /\ s # 0
    /\ \/ readyState[s] = "CLOSING"
       \/ readyState[s] = "OPEN" /\ conns[i].readyState \in {"CLOSING", "CLOSED"}
    /\ ConnectionClose(s, sent)
    /\ UNCHANGED clientVars

InitClient ==
  /\ InitServer
  /\ asked = NeverAsked(Clients)
  /\ handled = NoEvent
  /\ misbehaving = NoPeer
  /\ clientDocumentIds = [c \in Clients |-> {}]
  /\ clientPeers = [c \in Clients |-> [peerId \in Clients |-> [d \in DocumentIds |-> -1]]]
  /\ conns = <<>>
  /\ upstream = [c \in Clients |-> <<>>]
  /\ callsLeft = MaxCalls
  /\ InitNoSession

\* what the applications do
Calls ==
  \/ \E c \in Clients, d \in Topics :
       ClientJoin(c, d) /\ UNCHANGED <<serverVars, sessionVars>>
  \/ \E c \in Clients, d \in Topics :
       d \in clientDocumentIds[c] /\ ClientLeave(c, d) /\ UNCHANGED <<serverVars, sessionVars>>
  \/ \E c \in Clients : \E peerId \in Clients \ {c} :
       ClientDisconnectPeer(c, peerId) /\ UNCHANGED <<serverVars, sessionVars>>

\* what the server and the clients do when an event reaches them
Events ==
  \/ \E c \in Clients : ServerAcceptsIntroduction(c)
  \/ \E c \in Clients : ServerGetsRequest(c)
  \/ \E i \in 1..Len(conns) : ServerAcceptsConnection(i)
  \/ \E i \in 1..Len(conns) : ServerGetsClose(i)
  \/ \E c \in Clients :
       ClientOnServerMessage(c)
         /\ UNCHANGED <<sockets, readyState, peers, documentIds, holding, listeners, pipedTo,
                        asked, handled, received, misbehaving, sessionFields>>
  \/ \E i \in 1..Len(conns) : ClientOnOpen(i) /\ UNCHANGED <<serverVars, sessionVars>>
  \/ \E i \in 1..Len(conns) : ClientOnClose(i) /\ UNCHANGED <<serverVars, sessionVars>>

NextClient == Calls \/ Events

\* every event that is due is handled in the end
SpecClient == InitClient /\ [][NextClient]_vars /\ WF_vars(Events)

----------------------------------------------------------------------------
(* Claims about the clients and the server together *)

BothHold(d) == \A c \in Clients : d \in clientDocumentIds[c]

\* the client's map holds for (peerId, d) a socket that is open: its "open"
\* listener has put it there and emitted peer-connect
LiveSocket(c, peerId, d) ==
  /\ clientPeers[c][peerId][d] > 0
  /\ conns[clientPeers[c][peerId][d]].readyState = "OPEN"

\* each has a live socket for the other and the server has piped the two
Connected(a, b, d) ==
  /\ LiveSocket(a, b, d)
  /\ LiveSocket(b, a, d)
  /\ LET sa == conns[clientPeers[a][b][d]].server
         sb == conns[clientPeers[b][a][d]].server
     IN /\ readyState[sa] = "OPEN" /\ readyState[sb] = "OPEN"
        /\ pipedTo[sa] = sb /\ pipedTo[sb] = sa

\* C5: end-to-end connection. Whenever alice and bob both hold a document id,
\* then, unless one of them leaves it, eventually each has a live connection
\* socket recorded for the other and the server has paired the two sockets.
C5_EventuallyConnected ==
  \A d \in Topics :
    BothHold(d) ~> (Connected("alice", "bob", d) \/ ~BothHold(d))

\* ---------------------------------------------------------------------------
\* The Client's connection to the server: connecting, retrying with a growing
\* delay, deliberate disconnection, and the messages sent meanwhile.
\* ---------------------------------------------------------------------------

\* how many introduction WebSockets the followed Client makes
MaxLinks == 3

\* how many calls the application makes on the followed Client
MaxSessionCalls == 2

\* delays are counted in tenths of a millisecond
Scale == 10

\* the default minRetryDelay, and a maxRetryDelay that three failures reach
ShortOptions == [minRetryDelay |-> 10 * Scale, maxRetryDelay |-> 30 * Scale]

\* backoffFactor + Math.random() * 0.1 - 0.05 with the default backoffFactor 1.5,
\* in thousandths: the least and the greatest value
BackoffFactors == {1450, 1549}

\* new WebSocket(url)
NewLink == [readyState |-> "CONNECTING", got |-> <<>>]

\* the state the Client's methods work on
Session == [client |-> client, links |-> links, timers |-> timers,
            waiting |-> waiting, issued |-> issued]

Becomes(st) ==
  /\ client' = st.client
  /\ links' = st.links
  /\ timers' = st.timers
  /\ waiting' = st.waiting
  /\ issued' = st.issued
  /\ thrown' = thrown

\* socket.readyState === WebSocket.OPEN
IsOpenLink(ls, s) == s \in 1..Len(ls) /\ ls[s].readyState = "OPEN"

\* Client.connectToServer
connectToServer(st) ==
  [st EXCEPT !.links = Append(@, NewLink),
             !.client.serverConnection = Len(st.links) + 1]

\* the try block of Client.send: WebSocket.send throws while the socket is
\* connecting, writes when it is open, and discards when it is closing or closed
socketSend(st, message) ==
  LET s == st.client.serverConnection IN
    CASE st.links[s].readyState = "OPEN" ->
           [st EXCEPT !.links[s].got = Append(@, pack(message))]
      [] st.links[s].readyState = "CONNECTING" ->
           [st EXCEPT !.client.pendingMessages = Append(@, message)]
      [] OTHER -> st

\* Client.send up to the point where isReady returns: at once when the socket
\* is open, otherwise the call waits on that socket
sendToServer(st, message) ==
  LET s == st.client.serverConnection IN
    IF IsOpenLink(st.links, s)
    THEN socketSend(st, message)
    ELSE [st EXCEPT !.waiting = Append(@, [for |-> "send", socket |-> s, message |-> message])]

\* Set.add and Set.delete on documentIds, which keeps the order of insertion
SetAdd(ids, id) == IF Includes(ids, id) THEN ids ELSE Append(ids, id)

SetDelete(ids, id) == SelectSeq(ids, LAMBDA x : x # id)

\* Client.join
join(st, documentId) ==
  sendToServer([st EXCEPT !.client.documentIds = SetAdd(@, documentId),
                          !.issued = Append(@, Join(<<documentId>>))],
               Join(<<documentId>>))

\* Client.leave (the followed Client has no peer sockets to close)
leave(st, documentId) ==
  sendToServer([st EXCEPT !.client.documentIds = SetDelete(@, documentId),
                          !.issued = Append(@, Leave(<<documentId>>))],
               Leave(<<documentId>>))

\* this.documentIds.forEach(id => this.join(id))
RECURSIVE joinAll(_, _)
joinAll(st, ids) ==
  IF ids = <<>> THEN st ELSE joinAll(join(st, Head(ids)), Tail(ids))

\* Client.sendPendingMessages
RECURSIVE sendPendingMessages(_)
sendPendingMessages(st) ==
  IF st.client.pendingMessages = <<>> THEN st
  ELSE LET message == Head(st.client.pendingMessages) IN
         sendPendingMessages(
           sendToServer([st EXCEPT !.client.pendingMessages = Tail(@)], message))

\* Client.onServerOpen after isReady has returned
afterOpen(st) ==
  LET reset == [st EXCEPT !.client.retryDelay = st.client.minRetryDelay,
                          !.client.shouldReconnectIfClosed = TRUE]
      flushed == sendPendingMessages(reset)
  IN  [flushed EXCEPT !.client.open = TRUE]

\* Client.onServerOpen: it waits until this.serverConnection is open
onServerOpen(st) ==
  LET s == st.client.serverConnection IN
    IF IsOpenLink(st.links, s)
    THEN afterOpen(st)
    ELSE [st EXCEPT !.waiting = Append(@, [for |-> "open", socket |-> s, message |-> NoEvent])]

\* the new value of retryDelay in Client.tryToReopen
nextDelay(retryDelay, maxRetryDelay, factor) ==
  IF retryDelay < maxRetryDelay THEN (retryDelay * factor) \div 1000 ELSE retryDelay

\* Client.tryToReopen: the timer is set with the delay as it is, then the delay grows
tryToReopen(st, factor) ==
  [st EXCEPT !.timers = Append(@, st.client.retryDelay),
             !.client.retryDelay = nextDelay(@, st.client.maxRetryDelay, factor)]

\* Client.onServerClose
onServerClose(st, factor) ==
  LET closed == [st EXCEPT !.client.open = FALSE] IN
    IF st.client.shouldReconnectIfClosed THEN tryToReopen(closed, factor) ELSE closed

\* WebSocket.close
closeLink(link) ==
  IF link.readyState \in {"CONNECTING", "OPEN"}
  THEN [link EXCEPT !.readyState = "CLOSING"]
  ELSE link

\* Client.disconnectServer (the followed Client has no peers to disconnect)
disconnectServer(st) ==
  LET s == st.client.serverConnection IN
    [st EXCEPT !.client.shouldReconnectIfClosed = FALSE,
               !.links[s] = closeLink(@)]

\* drop the k-th element of a sequence
Without(seq, k) == SubSeq(seq, 1, k - 1) \o SubSeq(seq, k + 1, Len(seq))

\* the "open" event of the i-th WebSocket
LinkOpens(i) ==
  /\ links[i].readyState = "CONNECTING"
  /\ Becomes(onServerOpen([Session EXCEPT !.links[i].readyState = "OPEN"]))
  /\ UNCHANGED callsLeft

\* the "close" event of the i-th WebSocket, with the random factor of the backoff
LinkCloses(i, factor) ==
  /\ links[i].readyState # "CLOSED"
  /\ Becomes(onServerClose([Session EXCEPT !.links[i].readyState = "CLOSED"], factor))
  /\ UNCHANGED callsLeft

\* the callback of the k-th timer of tryToReopen
TimerFires(k) ==
  /\ LET fired == [Session EXCEPT !.timers = Without(@, k)]
         dialled == connectToServer(fired)
     IN  Becomes(joinAll(dialled, dialled.client.documentIds))
  /\ UNCHANGED callsLeft

\* isReady returns to its k-th waiting caller: its socket is seen open
IsReadyReturns(k) ==
  /\ IsOpenLink(links, waiting[k].socket)
  /\ LET resumed == [Session EXCEPT !.waiting = Without(@, k)] IN
       IF waiting[k].for = "open"
       THEN Becomes(afterOpen(resumed))
       ELSE Becomes(socketSend(resumed, waiting[k].message))
  /\ UNCHANGED callsLeft

\* the application's calls
Call(st) ==
  /\ callsLeft > 0
  /\ callsLeft' = callsLeft - 1
  /\ Becomes(st)

\* the Client after its constructor, with the given options and documentIds
NewClient(peerId, options, ids) ==
  joinAll(
    connectToServer(
      [client |-> [peerId |-> peerId,
                   minRetryDelay |-> options.minRetryDelay,
                   maxRetryDelay |-> options.maxRetryDelay,
                   retryDelay |-> options.minRetryDelay,
                   shouldReconnectIfClosed |-> TRUE,
                   open |-> FALSE,
                   serverConnection |-> 0,
                   documentIds |-> <<>>,
                   pendingMessages |-> <<>>],
       links |-> <<>>, timers |-> <<>>, waiting |-> <<>>, issued |-> <<>>]),
    ids)

InitSessionWith(options, ids, calls) ==
  /\ InitServer
  /\ asked = NeverAsked({})
  /\ handled = NoEvent
  /\ misbehaving = NoPeer
  /\ clientDocumentIds = [c \in {} |-> {}]
  /\ clientPeers = [c \in {} |-> {}]
  /\ conns = <<>>
  /\ upstream = [c \in {} |-> <<>>]
  /\ callsLeft = calls
  /\ LET st == NewClient("alice", options, ids) IN
       /\ client = st.client
       /\ links = st.links
       /\ timers = st.timers
       /\ waiting = st.waiting
       /\ issued = st.issued
       /\ thrown = <<>>

TransportEvents ==
  \/ \E i \in 1..Len(links) : LinkOpens(i)
  \/ \E i \in 1..Len(links), factor \in BackoffFactors : LinkCloses(i, factor)

\* the application calls join, leave, connectToServer and disconnectServer meanwhile
InitSession ==
  \E ids \in {<<>>, <<"doc-1">>} : InitSessionWith(ShortOptions, ids, MaxSessionCalls)

SessionCalls ==
  \/ \E d \in Topics : Call(join(Session, d))
  \/ \E d \in Topics : Call(leave(Session, d))
  \/ Len(links) < MaxLinks /\ Call(connectToServer(Session))
  \/ Call(disconnectServer(Session))

SessionEvents ==
  \/ TransportEvents
  \/ \E k \in 1..Len(timers) : Len(links) < MaxLinks /\ TimerFires(k)
  \/ \E k \in 1..Len(waiting) : IsReadyReturns(k)

NextSession ==
  \/ SessionCalls /\ UNCHANGED <<serverVars, clientDocumentIds, clientPeers, conns, upstream>>
  \/ SessionEvents /\ UNCHANGED <<serverVars, clientDocumentIds, clientPeers, conns, upstream>>

SpecSession == InitSession /\ [][NextSession]_vars /\ WF_vars(SessionEvents)

\* C14: retry cap. In every state of the Client retryDelay is at most
\* maxRetryDelay: the multiplication applied when the server connection closes
\* never takes it above maxRetryDelay.
C14_RetryCap == client.retryDelay <= client.maxRetryDelay

\* a server connection that the Client has not closed itself is closed
ServerFails ==
  \E i \in 1..Len(links) :
    links[i].readyState \in {"CONNECTING", "OPEN"} /\ links'[i].readyState = "CLOSED"

\* C15: retry monotonicity. Each time the server connection closes
\* other than by the Client's own close, retryDelay is strictly greater after
\* the close than before it as long as it was below maxRetryDelay, and
\* retryDelay is never smaller than minRetryDelay.
C15_RetryMonotonicity ==
  /\ [](client.retryDelay >= client.minRetryDelay)
  /\ [][(ServerFails /\ client.retryDelay < client.maxRetryDelay) =>
           client'.retryDelay > client.retryDelay]_vars

\* the "open" event of one of the Client's server connections is handled
ServerOpens ==
  \E i \in 1..Len(links) : links[i].readyState = "CONNECTING" /\ links'[i].readyState = "OPEN"

\* a server connection that was open is closed, and a retry is scheduled
RetriesAfterOpen ==
  /\ \E i \in 1..Len(links) : links[i].readyState = "OPEN" /\ links'[i].readyState = "CLOSED"
  /\ Len(timers') = Len(timers) + 1

\* C16: retry reset. Whenever a server connection opens, retryDelay is set back
\* to minRetryDelay, whatever its value was, and the retry scheduled when an
\* open server connection closes waits minRetryDelay.
C16_RetryReset ==
  [][/\ ServerOpens => client'.retryDelay = client'.minRetryDelay
     /\ RetriesAfterOpen => timers'[Len(timers')] = client.minRetryDelay]_vars

\* the server connection i, which the Client has closed, is closed
DeliberateClose(i) == links[i].readyState = "CLOSING" /\ links'[i].readyState = "CLOSED"

\* the server connection i, which was open and which the Client has not closed,
\* is closed
OpenFails(i) == links[i].readyState = "OPEN" /\ links'[i].readyState = "CLOSED"

\* C17: deliberate shutdown suppresses the retry. When a server connection
\* closes because disconnectServer() has closed it, no reconnect is scheduled;
\* when it closes for any other reason while the Client is open, a reconnect is
\* scheduled after retryDelay.
C17_DeliberateShutdown ==
  [][\A i \in 1..Len(links) :
       /\ DeliberateClose(i) => timers' = timers
       /\ (OpenFails(i) /\ client.open) => timers' = Append(timers, client.retryDelay)]_vars

\* the Client dials a server connection by itself, not in a call of connectToServer
DialsByItself == Len(links') > Len(links) /\ callsLeft' = callsLeft

\* C18: reconnect timers are cancelled by deliberate shutdown. Once
\* disconnectServer() has returned, and until a connection made by an explicit
\* connectToServer() has opened, no timer scheduled earlier dials a new server
\* connection.
C18_TimersCancelled ==
  [][DialsByItself => client.shouldReconnectIfClosed]_vars

\* the messages of a in the order they have in b: a is b with elements left out
RECURSIVE IsSubsequence(_, _)
IsSubsequence(a, b) ==
  IF a = <<>> THEN TRUE
  ELSE IF b = <<>> THEN FALSE
  ELSE IF Head(a) = Head(b) THEN IsSubsequence(Tail(a), Tail(b))
  ELSE IsSubsequence(a, Tail(b))

\* what the server reads on the i-th server connection
ServerReads(i) == [n \in 1..Len(links[i].got) |-> unpack(links[i].got[n])]

\* C19: send while not open. The Join and Leave messages that the Client
\* issues, also while its server connection is connecting or closed, reach the
\* server in the order issued: what the server reads on a connection is the
\* sequence of the messages issued, with none out of its place.
C19_SendWhileNotOpen ==
  \A i \in 1..Len(links) : IsSubsequence(ServerReads(i), issued)

\* the sockets that Client c has dialled to peerId for documentId and that are
\* connecting or open
Dials(c, peerId, documentId) ==
  {i \in 1..Len(conns) :
     /\ conns[i].owner = c /\ conns[i].peerId = peerId /\ conns[i].documentId = documentId
     /\ conns[i].readyState \in {"CONNECTING", "OPEN"}}

\* C20: no duplicate dials. For every peer and document id a Client has at most
\* one connection socket that is connecting or open, at any time.
C20_NoDuplicateDials ==
  \A c \in Clients, peerId \in Clients, d \in Topics :
    Cardinality(Dials(c, peerId, d)) <= 1


\* ---------------------------------------------------------------------------
\* The Client's map of peers
\* ---------------------------------------------------------------------------

\* the sockets among cs that Client c has dialled to peerId for documentId
SocketsFor(cs, c, peerId, documentId) ==
  {i \in 1..Len(cs) :
     cs[i].owner = c /\ cs[i].peerId = peerId /\ cs[i].documentId = documentId}

\* Client c reads the next message on its server connection
ReadsIntroduction(c) ==
  /\ ServerConnection(c) # 0
  /\ sent[ServerConnection(c)] # <<>>
  /\ sent'[ServerConnection(c)] = Tail(sent[ServerConnection(c)])

MaxPeerCalls == 5

\* bob is not a Client: his introduction socket is driven directly, and he
\* answers no Introduction
PeerSends(peerId, data) ==
  /\ callsLeft > 0
  /\ callsLeft' = callsLeft - 1
  /\ ServerConnection(peerId) # 0
  /\ IntroductionMessage(ServerConnection(peerId), data, sent)
  /\ UNCHANGED <<clientDocumentIds, clientPeers, conns, upstream, sessionVars>>

\* alice is a Client, with two document ids to join and leave
InitPeers ==
  /\ InitServer
  /\ asked = NeverAsked(Clients)
  /\ handled = NoEvent
  /\ misbehaving = NoPeer
  /\ clientDocumentIds = [c \in {"alice"} |-> {}]
  /\ clientPeers = [c \in {"alice"} |-> [peerId \in Clients |-> [d \in DocumentIds |-> -1]]]
  /\ conns = <<>>
  /\ upstream = [c \in {"alice"} |-> <<>>]
  /\ callsLeft = MaxPeerCalls
  /\ InitNoSession

PeerCalls ==
  \/ \E d \in DocumentIds : ClientJoin("alice", d) /\ UNCHANGED <<serverVars, sessionVars>>
  \/ \E d \in DocumentIds : ClientLeave("alice", d) /\ UNCHANGED <<serverVars, sessionVars>>
  \/ ClientDisconnectPeer("alice", "bob") /\ UNCHANGED <<serverVars, sessionVars>>
  \/ \E d \in DocumentIds : PeerSends("bob", pack(Join(<<d>>)))
  \/ \E d \in DocumentIds : PeerSends("bob", pack(Leave(<<d>>)))

PeerEvents ==
  \/ \E c \in Clients : ServerAcceptsIntroduction(c)
  \/ ServerGetsRequest("alice")
  \/ \E i \in 1..Len(conns) : ServerAcceptsConnection(i)
  \/ \E i \in 1..Len(conns) : ServerGetsClose(i)
  \/ ClientOnServerMessage("alice")
       /\ UNCHANGED <<sockets, readyState, peers, documentIds, holding, listeners, pipedTo,
                      asked, handled, received, misbehaving, sessionFields>>
  \/ \E i \in 1..Len(conns) : ClientOnOpen(i) /\ UNCHANGED <<serverVars, sessionVars>>
  \/ \E i \in 1..Len(conns) : ClientOnClose(i) /\ UNCHANGED <<serverVars, sessionVars>>

NextPeers == PeerCalls \/ PeerEvents

SpecPeers == InitPeers /\ [][NextPeers]_vars /\ WF_vars(PeerEvents)


\* Client c's call leave(d) returns
Leaves(c, d) ==
  /\ callsLeft' = callsLeft - 1
  /\ upstream'[c] = Append(upstream[c], pack(Leave(<<d>>)))

\* C22: Client leave. When leave(d) returns, d is not among the Client's
\* document ids, has(p, d) is false for every peer p, every connection
\* socket the Client has for d that was open is closing, the Leave for d is
\* on its way to the server, and the map entries and the sockets of other
\* document ids are as they were.
C22_ClientLeave ==
  [][\A c \in DOMAIN clientPeers : \A d \in DocumentIds :
       Leaves(c, d) =>
         /\ d \notin clientDocumentIds'[c]
         /\ \A p \in DOMAIN clientPeers[c] :
              /\ ~has(c, p, d)'
              /\ \A e \in DocumentIds \ {d} : clientPeers'[c][p][e] = clientPeers[c][p][e]
         /\ \A i \in 1..Len(conns) :
              IF conns[i].owner = c /\ conns[i].documentId = d
              THEN conns[i].readyState = "OPEN" => conns'[i].readyState = "CLOSING"
              ELSE conns'[i] = conns[i]]_vars


\* the sockets the Clients can have dialled, one per call at most
ConnIds == 1..MaxCalls

\* Client c's call disconnectPeer(peerId) returns, having closed a socket
DisconnectsPeer(c, peerId) ==
  /\ callsLeft' = callsLeft - 1
  /\ upstream' = upstream
  /\ \E i \in 1..Len(conns) :
       /\ conns[i].owner = c /\ conns[i].peerId = peerId
       /\ conns[i].readyState = "OPEN" /\ conns'[i].readyState = "CLOSING"

\* socket j is an open socket of bob's for alice, the server has piped it to
\* a socket of alice's, and alice has closed that one
ClosedByAlice(j) ==
  /\ j <= Len(conns)
  /\ conns[j].owner = "bob" /\ conns[j].peerId = "alice"
  /\ conns[j].readyState = "OPEN"
  /\ \E i \in 1..Len(conns) :
       /\ conns[i].owner = "alice" /\ conns[i].readyState = "CLOSING"
       /\ conns[i].server # 0 /\ conns[j].server # 0
       /\ pipedTo[conns[i].server] = conns[j].server

\* bob's close listener has run for socket j: peer-disconnect was emitted
PeerDisconnected(j) == j <= Len(conns) /\ conns[j].disconnects = 1

\* C23: disconnectPeer reaches both sides. When alice's disconnectPeer(bob)
\* returns, alice.has(bob, d) is false for every document id d; and when alice
\* has closed the socket that the server has piped to the one bob holds for
\* her, eventually bob gets peer-disconnect for that socket and
\* bob.has(alice, d) is false.
C23_DisconnectPeerBothSides ==
  /\ [][DisconnectsPeer("alice", "bob") => \A d \in DocumentIds : ~has("alice", "bob", d)']_vars
  /\ [](DOMAIN conns \subseteq ConnIds)
  /\ \A j \in ConnIds :
       ClosedByAlice(j) ~> (PeerDisconnected(j) /\ ~has("bob", "alice", conns[j].documentId))

\* alice has called disconnectPeer(bob) while connected: her map has no
\* entry for bob, her socket has closed; bob's socket has closed, with one
\* peer-disconnect, and his map has no entry for alice. Both still hold doc-1.
C23_Witness ==
  /\ BothHold("doc-1")
  /\ ~has("alice", "bob", "doc-1") /\ ~has("bob", "alice", "doc-1")
  /\ Len(conns) = 2
  /\ \A i \in 1..2 : /\ conns[i].readyState = "CLOSED"
                     /\ conns[i].connects = 1 /\ conns[i].disconnects = 1
  /\ callsLeft = MaxCalls - 3


\* ---------------------------------------------------------------------------
\* Disconnecting from the server and connecting again. alice is followed
\* through her server connections; bob is a Client that stays connected. Both
\* are constructed with doc-1. alice calls disconnectServer once both are
\* connected, connectToServer once both have seen the disconnection, and then
\* join(doc-1). No transport fails.
\* ---------------------------------------------------------------------------

\* the three calls alice's application makes
MaxReconnectCalls == 3

\* the server's socket for the i-th WebSocket alice has made, 0 before the
\* server has accepted it
LinkSocket(i) ==
  LET mine == {s \in IntroductionSockets : sockets[s].A = client.peerId} IN
    IF Cardinality(mine) >= i
    THEN CHOOSE s \in mine : Cardinality({r \in mine : r <= s}) = i
    ELSE 0

sessionFrame == UNCHANGED <<serverVars, clientDocumentIds, clientPeers, conns, upstream>>

\* Client.disconnectServer: disconnectPeer for every peer of the map, then
\* the server connection is closed
ReconnectDisconnectServer ==
  /\ Call(disconnectServer(Session))
  /\ conns' = CloseAll(conns, {clientPeers["alice"][p][d] : p \in Clients, d \in DocumentIds})
  /\ clientPeers' = [clientPeers EXCEPT !["alice"] = [p \in Clients |-> [d \in DocumentIds |-> -1]]]
  /\ UNCHANGED <<serverVars, clientDocumentIds, upstream>>

\* both have emitted peer-disconnect and neither has the other
BothDropped ==
  /\ ~has("alice", "bob", "doc-1") /\ ~has("bob", "alice", "doc-1")
  /\ \A c \in Clients : \E i \in 1..Len(conns) : conns[i].owner = c /\ conns[i].disconnects = 1

ReconnectCalls ==
  \/ /\ callsLeft = 3
     /\ LiveSocket("alice", "bob", "doc-1") /\ LiveSocket("bob", "alice", "doc-1")
     /\ ReconnectDisconnectServer
  \/ callsLeft = 2 /\ BothDropped /\ Call(connectToServer(Session)) /\ sessionFrame
  \/ callsLeft = 1 /\ Call(join(Session, "doc-1")) /\ sessionFrame

\* the server accepts alice's i-th WebSocket
ServerAcceptsLink(i) ==
  /\ links[i].readyState = "CONNECTING"
  /\ LinkSocket(i) = 0
  /\ i > 1 => LinkSocket(i - 1) # 0
  /\ AcceptIntroduction("alice", sent)
  /\ UNCHANGED clientVars

\* the server gets the next message alice has written to her i-th WebSocket
ServerGetsFromLink(i) ==
  /\ LinkSocket(i) # 0
  /\ links[i].got # <<>>
  /\ IntroductionMessage(LinkSocket(i), Head(links[i].got), sent)
  /\ links' = [links EXCEPT ![i].got = Tail(@)]
  /\ UNCHANGED <<clientDocumentIds, clientPeers, conns, upstream, callsLeft,
                 client, timers, waiting, issued, thrown>>

\* the server sees the close of alice's i-th WebSocket, after what she wrote to it
ServerGetsLinkClose(i) ==
  /\ LinkSocket(i) # 0
  /\ links[i].readyState \in {"CLOSING", "CLOSED"}
  /\ links[i].got = <<>>
  /\ IntroductionClose(LinkSocket(i), sent)
  /\ UNCHANGED clientVars

ReconnectEvents ==
  \/ \E i \in 1..Len(links) : ServerAcceptsLink(i)
  \/ \E i \in 1..Len(links) : ServerGetsFromLink(i)
  \/ \E i \in 1..Len(links) : ServerGetsLinkClose(i)
  \/ \E i \in 1..Len(links) : LinkSocket(i) # 0 /\ LinkOpens(i) /\ sessionFrame
  \/ \E i \in 1..Len(links), factor \in BackoffFactors :
       links[i].readyState = "CLOSING" /\ LinkCloses(i, factor) /\ sessionFrame
  \/ \E k \in 1..Len(waiting) : IsReadyReturns(k) /\ sessionFrame
  \/ \E i \in 1..Len(links) :
       /\ links[i].readyState = "OPEN"
       /\ OnServerMessage("alice", LinkSocket(i))
       /\ UNCHANGED <<sockets, readyState, peers, documentIds, holding, listeners, pipedTo,
                      asked, handled, received, misbehaving, sessionFields>>
  \/ ServerAcceptsIntroduction("bob")
  \/ ServerGetsRequest("bob")
  \/ ClientOnServerMessage("bob")
       /\ UNCHANGED <<sockets, readyState, peers, documentIds, holding, listeners, pipedTo,
                      asked, handled, received, misbehaving, sessionFields>>
  \/ \E i \in 1..Len(conns) : ServerAcceptsConnection(i)
  \/ \E i \in 1..Len(conns) : ServerGetsClose(i)
  \/ \E i \in 1..Len(conns) : ClientOnOpen(i) /\ UNCHANGED <<serverVars, sessionVars>>
  \/ \E i \in 1..Len(conns) : ClientOnClose(i) /\ UNCHANGED <<serverVars, sessionVars>>

InitReconnect ==
  /\ InitServer
  /\ asked = NeverAsked(Clients)
  /\ handled = NoEvent
  /\ misbehaving = NoPeer
  /\ clientDocumentIds = [c \in {"bob"} |-> {"doc-1"}]
  /\ clientPeers = [c \in Clients |-> [peerId \in Clients |-> [d \in DocumentIds |-> -1]]]
  /\ conns = <<>>
  /\ upstream = [c \in {"bob"} |-> <<pack(Join(<<"doc-1">>))>>]
  /\ callsLeft = MaxReconnectCalls
  /\ LET st == NewClient("alice", ShortOptions, <<"doc-1">>) IN
       /\ client = st.client
       /\ links = st.links
       /\ timers = st.timers
       /\ waiting = st.waiting
       /\ issued = st.issued
       /\ thrown = <<>>

NextReconnect == ReconnectCalls \/ ReconnectEvents

SpecReconnect == InitReconnect /\ [][NextReconnect]_vars /\ WF_vars(ReconnectEvents)

\* C24: disconnect then reconnect. After alice has called disconnectServer,
\* both have dropped their connection, and alice has called connectToServer and
\* join(doc-1), eventually alice.has(bob, doc-1) and bob.has(alice, doc-1) are
\* both true again; bob holds doc-1 throughout.
C24_Reconnects ==
  (callsLeft = 0) ~> (has("alice", "bob", "doc-1") /\ has("bob", "alice", "doc-1"))


\* the "close" event of one of the Client's server connections is handled
ServerCloses ==
  \E i \in 1..Len(links) : links[i].readyState # "CLOSED" /\ links'[i].readyState = "CLOSED"

\* C25: the open flag tracks only the introduction transport. It is false
\* once the close of a server connection has been handled (onServerClose,
\* which emits server-disconnect next), it is true once the open of a server
\* connection has been handled, and nothing else changes it: no call of the
\* application does, disconnectPeer included.
C25_OpenFlag ==
  /\ [][ServerCloses => ~client'.open]_vars
  /\ [][ServerOpens => client'.open]_vars
  /\ [][callsLeft' # callsLeft => client'.open = client.open]_vars


----------------------------------------------------------------------------
(* Claims about the table of pending requests *)

\* the requests of sockets s and r are for reciprocal triples
Reciprocal(ss, s, r) ==
  /\ ss[s].A = ss[r].B /\ ss[s].B = ss[r].A
  /\ ss[s].documentId = ss[r].documentId

\* the server accepts a socket on /connection in this step
Arrives == Len(sockets') > Len(sockets)

\* AseeksB and BseeksA of the request that arrives
ArrivedKey ==
  LET x == sockets'[Len(sockets')] IN Key(x.A, x.B, x.documentId)

ArrivedReciprocal ==
  LET x == sockets'[Len(sockets')] IN Key(x.B, x.A, x.documentId)

\* C26: pending entries never persist after pairing. In every state no two
\* pending entries are for reciprocal triples (A, B, t) and (B, A, t); and when
\* a request (A, B, t) arrives while (B, A, t) is pending, that entry is
\* deleted in the same step and no entry for (A, B, t) is created.
C26_NoReciprocalPending ==
  /\ [](\A k, l \in DOMAIN holding : ~Reciprocal(sockets, holding[k].socket, holding[l].socket))
  /\ [][Arrives =>
          \A k \in DOMAIN holding :
            Reciprocal(sockets', holding[k].socket, Len(sockets')) =>
              /\ ~HoldingHas(holding', k)
              /\ ~HoldingHas(holding', ArrivedKey)
              /\ pipedTo'[Len(sockets')] = holding[k].socket]_vars

\* alice's request was pending with a message; bob's reciprocal request has
\* just arrived and was paired with it, and the table is empty
C26_Witness ==
  /\ Len(sockets) = 2
  /\ sockets[1].A = "alice" /\ sockets[2].A = "bob"
  /\ handled = SocketEvent("connect", 2)
  /\ pipedTo[2] = 1 /\ received[1] # <<>>
  /\ DOMAIN holding = {}


\* the close of socket s is handled in this step
Closes(s) == readyState[s] # "CLOSED" /\ readyState'[s] = "CLOSED"

\* C27: pending entry lifecycle. A pending entry is removed only in the step
\* that pairs it with its reciprocal request, or in the step that handles the
\* close of the socket it holds; the close of any other socket leaves it.
C27_PendingLifecycle ==
  [][\A k \in DOMAIN holding :
       ~HoldingHas(holding', k) =>
         \/ Arrives /\ ArrivedReciprocal = k
         \/ Closes(holding[k].socket)]_vars


\* C28: pending buffer purity. The queue of every pending entry holds the
\* messages received on the socket the entry holds, in the order received, and
\* nothing else: a message that arrives on another socket is never appended.
C28_PendingBufferPurity ==
  \A k \in DOMAIN holding : holding[k].messages = received[holding[k].socket]


\* C29: no dangling transports. Once the close of a socket has been handled
\* no entry of the server's peers, no pending entry and no entry of a
\* Client's map of peers refers to it.
C29_NoDanglingTransports ==
  /\ \A s \in 1..Len(sockets) :
       readyState[s] = "CLOSED" =>
         /\ \A n \in 1..Len(peers) : peers[n].socket # s
         /\ \A k \in DOMAIN holding : holding[k].socket # s
  /\ \A i \in 1..Len(conns) :
       conns[i].readyState = "CLOSED" =>
         \A c \in DOMAIN clientPeers : \A p \in DOMAIN clientPeers[c] :
           \A d \in DOMAIN clientPeers[c][p] : clientPeers[c][p][d] # i

\* alice has disconnected and connected again: the server has handled the
\* close of her first introduction socket and of the first connection sockets,
\* both Clients have handled the close of their first peer socket, and each
\* has dialled the other again
C29_Witness ==
  /\ Len(links) = 2 /\ readyState[LinkSocket(1)] = "CLOSED"
  /\ Len(conns) = 4
  /\ \A i \in 1..2 : conns[i].readyState = "CLOSED" /\ readyState[conns[i].server] = "CLOSED"
  /\ LiveSocket("alice", "bob", "doc-1") /\ LiveSocket("bob", "alice", "doc-1")


\* ---------------------------------------------------------------------------
\* The rendezvous when identifiers contain the ':' that the key is built with
\* ---------------------------------------------------------------------------

MaxKeyConnections == 2

\* peer ids and document ids as the route's parameters can carry them
ColonPeerIds == {"a", "a:b", "b:c", "c"}

ColonDocumentIds == {"d", "c:d"}

NextKeys ==
  \/ \E A \in ColonPeerIds : \E B \in ColonPeerIds \ {A} : \E d \in ColonDocumentIds :
       /\ Len(sockets) < MaxKeyConnections
       /\ AcceptConnection(A, B, d, sent)
       /\ UNCHANGED clientVars
  \/ \E s \in 1..Len(sockets) :
       /\ FramesGot(Len(received)) < 1
       /\ ConnectionMessage(s, Frame(s, Len(received[s]) + 1), sent)
       /\ UNCHANGED clientVars
  \/ \E s \in 1..Len(sockets) :
       ConnectionClose(s, sent) /\ UNCHANGED clientVars

SpecKeys == InitBroker /\ [][NextKeys]_vars

\* C30: exact reciprocal matching. A request (A, B, t) is piped only to a
\* request whose triple is exactly (B, A, t), whatever characters the
\* identifiers contain.
C30_ExactReciprocalMatching ==
  \A x \in ConnectionSockets :
    pipedTo[x] # 0 =>
      /\ sockets[pipedTo[x]].A = sockets[x].B
      /\ sockets[pipedTo[x]].B = sockets[x].A
      /\ sockets[pipedTo[x]].documentId = sockets[x].documentId


----------------------------------------------------------------------------
(* More claims about the introduction service *)

\* C31: re-join repeats introductions. A Join for document ids the peer holds
\* already leaves every interest list as it was, and the Introductions are
\* sent again: the joining peer is sent one naming every other registered peer
\* it shares a document id with, and that peer one naming the joining peer,
\* each listing the document ids the two share.
C31_RejoinRepeatsIntroductions ==
  /\ [][(handled'.type = "Join" /\ handled'.again) => documentIds' = documentIds]_vars
  /\ [](( handled.type = "Join" /\ handled.again) =>
         \A B \in DOMAIN asked \ {Handler} :
           LET common == Interests(documentIds, Handler) \cap Interests(documentIds, B) IN
             (Registered(B) /\ common # {}) =>
               /\ \E sa \in OpenSocketsOf(Handler) : IntroducedTo(sent[sa], B, common)
               /\ IntroducedTo(sent[PeersGet(B)], Handler, common))


\* C32: server-side disconnect. When an introduction socket of a peer closes,
\* the peer's entry in peers and its whole interest list are gone, nothing is
\* written to any socket and no other peer's interest list changes; and in
\* every state an interest list exists only for a peer id that has an open
\* introduction socket.
C32_ServerSideDisconnect ==
  /\ [](\A p \in DOMAIN documentIds : OpenSocketsOf(p) # {})
  /\ [][\A s \in IntroductionSockets :
          (readyState[s] = "OPEN" /\ readyState'[s] = "CLOSED") =>
            /\ ~PeersHas(sockets[s].A)'
            /\ sockets[s].A \notin DOMAIN documentIds'
            /\ sent' = Flushed
            /\ \A p \in DOMAIN documentIds \ {sockets[s].A} :
                 p \in DOMAIN documentIds' /\ documentIds'[p] = documentIds[p]
            /\ \A n \in 1..Len(peers) :
                 peers[n].peerId # sockets[s].A => peers[n] \in Range(peers')]_vars

\* alice, who had an interest list (she had left doc-2), has closed her only
\* socket: she has no entry and no list, while bob is registered with his
C32_Witness ==
  /\ handled = SocketEvent("close", 1) /\ sockets[1].A = "alice"
  /\ OpenSocketsOf("alice") = {}
  /\ asked["alice"]["doc-2"] = "Leave"
  /\ ~PeersHas("alice") /\ "alice" \notin DOMAIN documentIds
  /\ Registered("bob") /\ Interests(documentIds, "bob") = {"doc-1", "doc-2"}


\* C33: unknown types and heartbeats are no-ops on the server. A message that
\* decodes and whose type is neither Join nor Leave, the Client's heartbeat
\* included, leaves peers, the interest lists and the pending requests as
\* they were, and nothing is written to any socket.
C33_UnknownTypesAreNoOps ==
  [][handled'.type \in {Heartbeat.type, Unknown.type} =>
       /\ UNCHANGED <<peers, documentIds, holding>>
       /\ sent' = Flushed]_vars

\* bob, registered and sharing doc-1 with alice, who is registered too, has
\* sent a message of an unknown type
C33_Witness ==
  /\ handled.type = Unknown.type /\ Handler = "bob"
  /\ Registered("alice") /\ Registered("bob")
  /\ Interests(documentIds, "alice") = {"doc-1"}
  /\ Interests(documentIds, "bob") = {"doc-1"}


\* ---------------------------------------------------------------------------
\* What the Client does with whatever arrives on its server connection: alice
\* is a Client, and her server connection is written to by a server that may
\* be of another version.
\* ---------------------------------------------------------------------------

MaxMessageCalls == 4

\* what may arrive on the server connection
ServerMessages ==
  {pack(Introduction("bob", ids)) : ids \in {<<"doc-1">>, <<"doc-1", "doc-2">>}}
    \cup {pack(Unknown), pack(Join(<<"doc-1">>))}

\* a message is written to the Client's server connection
ServerWrites(c, data) ==
  /\ callsLeft > 0
  /\ callsLeft' = callsLeft - 1
  /\ ServerConnection(c) # 0
  /\ sent' = [sent EXCEPT ![ServerConnection(c)] = Append(@, data)]
  /\ UNCHANGED <<sockets, readyState, peers, documentIds, holding, listeners, pipedTo,
                 asked, handled, received, misbehaving,
                 clientDocumentIds, clientPeers, conns, upstream, sessionVars>>

InitMessages ==
  /\ InitServer
  /\ asked = NeverAsked(Clients)
  /\ handled = NoEvent
  /\ misbehaving = NoPeer
  /\ clientDocumentIds = [c \in {"alice"} |-> {}]
  /\ clientPeers = [c \in {"alice"} |-> [peerId \in Clients |-> [d \in DocumentIds |-> -1]]]
  /\ conns = <<>>
  /\ upstream = [c \in {"alice"} |-> <<>>]
  /\ callsLeft = MaxMessageCalls
  /\ InitNoSession

NextMessages ==
  \/ \E d \in Topics : ClientJoin("alice", d) /\ UNCHANGED <<serverVars, sessionVars>>
  \/ \E data \in ServerMessages : ServerWrites("alice", data)
  \/ ServerAcceptsIntroduction("alice")
  \/ ServerGetsRequest("alice")
  \/ \E i \in 1..Len(conns) : ServerAcceptsConnection(i)
  \/ ClientOnServerMessage("alice")
       /\ UNCHANGED <<sockets, readyState, peers, documentIds, holding, listeners, pipedTo,
                      asked, handled, received, misbehaving, sessionFields>>
  \/ \E i \in 1..Len(conns) : ClientOnOpen(i) /\ UNCHANGED <<serverVars, sessionVars>>

SpecMessages == InitMessages /\ [][NextMessages]_vars

\* Client c reads a message that is not an Introduction
ReadsOther(c) ==
  /\ ReadsIntroduction(c)
  /\ unpack(Head(sent[ServerConnection(c)])).type # "Introduction"

\* C34: the Client rejects unknown server messages. When the Client reads a
\* server message whose type is not Introduction, it throws an error that
\* names the type, makes no connection socket, and its map of peers and its
\* document ids are as they were.
C34_RejectsUnknownMessages ==
  [][ReadsOther("alice") =>
       /\ Len(thrown') = Len(thrown) + 1
       /\ thrown'[Len(thrown')].type = unpack(Head(sent[ServerConnection("alice")])).type
       /\ UNCHANGED <<conns, clientPeers, clientDocumentIds>>]_vars

\* alice, who holds doc-1 and has dialled bob for it, has read a message of
\* an unknown type and thrown
C34_Witness ==
  /\ "doc-1" \in clientDocumentIds["alice"]
  /\ has("alice", "bob", "doc-1") /\ Len(conns) = 1
  /\ Len(thrown) = 1 /\ thrown[1].type = Unknown.type
  /\ sent[ServerConnection("alice")] = <<>>


\* ---------------------------------------------------------------------------
\* The Client left to reconnect by itself: the application calls join, leave
\* and disconnectServer, never connectToServer.
\* ---------------------------------------------------------------------------

AutomaticCalls ==
  \/ \E d \in Topics : Call(join(Session, d))
  \/ \E d \in Topics : Call(leave(Session, d))
  \/ Call(disconnectServer(Session))

NextAutomatic ==
  \/ AutomaticCalls /\ UNCHANGED <<serverVars, clientDocumentIds, clientPeers, conns, upstream>>
  \/ SessionEvents /\ UNCHANGED <<serverVars, clientDocumentIds, clientPeers, conns, upstream>>

SpecAutomatic == InitSession /\ [][NextAutomatic]_vars /\ WF_vars(SessionEvents)

\* the interest list the server has for a peer after it has handled the
\* messages read on a fresh introduction socket of the peer
RECURSIVE InterestAfter(_, _)
InterestAfter(ids, read) ==
  IF read = <<>> THEN ids
  ELSE InterestAfter(
         IF Head(read).type = "Join" THEN JoinMerge(ids, Head(read).documentIds)
         ELSE LeaveFilter(ids, Head(read).documentIds),
         Tail(read))

\* the i-th server connection is the Client's, it is open, and no call of
\* send waits for it any more
Announced(i) ==
  /\ client.serverConnection = i
  /\ links[i].readyState = "OPEN"
  /\ \A k \in 1..Len(waiting) : waiting[k].socket # i

\* C35: re-announce on open. Each time the server connection opens, the one
\* made at construction and the ones made by the reconnect timer, the Client
\* sends a Join for every document id it holds and for none it has left: once
\* what it sent has been delivered, the server's interest list for the Client
\* holds exactly the document ids the Client holds.
C35_ReannounceOnOpen ==
  \A i \in 1..Len(links) :
    Announced(i) => Range(InterestAfter(<<>>, ServerReads(i))) = Range(client.documentIds)


\* the last event the server handled was a Join of document id d that peer
\* p sent on its introduction socket s
JoinedOn(p, s, d) ==
  /\ handled.type = "Join"
  /\ handled.socket = s
  /\ sockets[s].A = p
  /\ Includes(handled.documentIds, d)

\* peer p has an entry in peers and d is in its interest list
Holds(p, d) == PeersHas(p) /\ d \in Interests(documentIds, p)

\* C36: registration survives a stale close. A peer that has joined a
\* document id on an introduction socket that is open is in peers with the
\* document id in its interest list, and stays so when another introduction
\* socket of the same peer id opens or closes while that socket stays open.
C36_RegistrationSurvivesStaleClose ==
  /\ [](\A p \in PeerIds, d \in DocumentIds, s \in 1..Len(sockets) :
          JoinedOn(p, s, d) => Holds(p, d))
  /\ [][\A p \in PeerIds, d \in DocumentIds, s \in 1..Len(sockets) :
          ( /\ JoinedOn(p, s, d)
            /\ readyState'[s] = "OPEN"
            /\ handled'.type \in {"open", "close"}
            /\ handled'.socket # s
            /\ sockets'[handled'.socket].A = p )
          => Holds(p, d)']_vars


----------------------------------------------------------------------------
(* More claims about the Client's map of peers *)

\* C37: the Client's map stays within its document ids. In every state every
\* entry of a Client's map of peers, null or a socket, is for a document id
\* the Client holds in documentIds: after leave(documentId) no socket for the
\* document id is made or set in the map until join(documentId) is called
\* again, even when an Introduction naming it, or the open event of a socket
\* made for it, was still to be handled.
C37_MapWithinDocumentIds ==
  \A c \in Clients, peerId \in Clients, d \in DocumentIds :
    has(c, peerId, d) => d \in clientDocumentIds[c]


\* the close event of connection socket i of a Client is handled in this step
ClosedOnClient(i) ==
  /\ i \in 1..Len(conns)
  /\ conns[i].readyState # "CLOSED"
  /\ conns'[i].readyState = "CLOSED"

\* the entry of the map of its owner for the peer and document id of socket i
EntryOf(cp, i) == cp[conns[i].owner][conns[i].peerId][conns[i].documentId]

\* C38: a close only removes its own entry. When the close event of a
\* connection socket is handled, the entry of the map for its peer and
\* document id is deleted if it holds that socket; an entry that is null or
\* holds another socket, dialled later for the same peer and document id,
\* stays as it is and that socket is not closed.
C38_CloseRemovesOwnEntry ==
  [][\A i \in 1..Len(conns) :
       ClosedOnClient(i) =>
         IF EntryOf(clientPeers, i) = i
         THEN EntryOf(clientPeers', i) = -1
         ELSE /\ EntryOf(clientPeers', i) = EntryOf(clientPeers, i)
              /\ \A j \in 1..Len(conns) : j # i => conns'[j] = conns[j]]_vars


----------------------------------------------------------------------------
(* More claims about the Client's server connection *)

\* the server connections of the Client that are connecting or open
LiveLinks == {i \in 1..Len(links) : links[i].readyState \in {"CONNECTING", "OPEN"}}

\* C39: single server connection. At any time the Client has at most one
\* server connection that is connecting or open and at most one timer of
\* tryToReopen pending, however the closes of its sockets, the timers,
\* disconnectServer() and explicit connectToServer() calls interleave.
C39_SingleServerConnection ==
  /\ Cardinality(LiveLinks) <= 1
  /\ Len(timers) <= 1

====
